---- MODULE Spec2Model ----
(***************************************************************************)
(* Model of the todo application: the SQLite persistence layer             *)
(* (src/src/lib/database.ts, todoQueries) and the server actions that wrap *)
(* it (src/unnamed/part_002, *Action functions).                           *)
(*                                                                         *)
(* A title is a sequence of one-character strings, so that trimming, the   *)
(* length check and LIKE matching are computed as the code computes them.  *)
(* A category, a priority and a message are strings compared for equality  *)
(* only.  A FormData is a record holding exactly the fields that were      *)
(* submitted: formData.get(k) of a missing field is null.                  *)
(***************************************************************************)
EXTENDS Integers, Sequences, FiniteSets, TLC

\* ------------------------------------------------------------------ bounds

\* The number of rowids the todos table hands out in a run (creates).
MaxId == 2
\* The number of seconds CURRENT_TIMESTAMP advances in a run.
MaxTime == 1
\* the longest run of toggles of one task that is followed
MaxToggles == 3
\* the queries of SearchAndFilter that may await their answer at one time
MaxInFlight == 2
\* the runs of the effect of a TodoItem that are counted
MaxEffectRuns == 3

\* ------------------------------------------------------- program constants

\* The limit as the error message words it: "less than 200 characters".
MaxTitleLenExclusive == 200 - 1

\* title.trim().length > 200
MaxTitleLen == 200

ErrTitleRequired == "Todo title is required"
ErrTitleTooLong  == "Todo title must be less than 200 characters"
ErrNotFound      == "Todo not found"
ErrCreate        == "Failed to create todo. Please try again."
ErrUpdate        == "Failed to update todo. Please try again."
ErrDelete        == "Failed to delete todo. Please try again."
MsgCreated       == "Todo created successfully!"
MsgUpdated       == "Todo updated successfully!"
MsgDeleted       == "Todo deleted successfully!"
MsgCompleted     == "Todo completed!"
MsgReopened      == "Todo reopened!"

\* The rows INSERT OR IGNORE seeds into categories, in statement order.
DefaultCategories ==
    << [name |-> "general",  color |-> "#6366f1"],
       [name |-> "work",     color |-> "#dc2626"],
       [name |-> "personal", color |-> "#059669"],
       [name |-> "shopping", color |-> "#d97706"] >>

\* ------------------------------------------------------------------- state

VARIABLES
    db,          \* the module-level singleton: TRUE once getDatabase() opened it
    todos,       \* the rows of table todos (completed is stored as 0 / 1)
    seq,         \* sqlite_sequence of todos: the largest rowid ever handed out
    categories,  \* the rows of table categories
    now,         \* CURRENT_TIMESTAMP, in seconds
    call,        \* the last server action: its input, the table before it, its result
    issued,      \* the rowids INSERT handed out, in order (history)
    run,         \* the toggles of one task since it was last observed (history)
    loaded,          \* Home: loadData has set the state (isLoading is false)
    localTodos,      \* Home: the state todos, all tasks as the page knows them
    filteredTodos,   \* Home: the state filteredTodos, the tasks displayed
    localCategories, \* Home: the state categories, with their counts
    optimistic,      \* TodoItem: ids whose optimistic toggle is being shown
    formState,       \* TodoForm: state of useActionState(createTodoAction)
    formDeps,        \* TodoForm: dependencies of the effect when it last ran
    updateState,     \* TodoItem: success and data of its useActionState, per id
    pending,         \* the request of the page that has not been answered yet
    handled,         \* what the last step of the page handled (history)
    searchQuery,         \* SearchAndFilter: the state searchQuery
    deferredSearchQuery, \* SearchAndFilter: useDeferredValue(searchQuery)
    selectedCategory,    \* Home: the state selectedCategory
    filterDeps,      \* SearchAndFilter: dependencies of the effect when it last ran
    queries,         \* the queries of SearchAndFilter not yet answered, oldest first
    effectRuns,      \* TodoItem: runs of its effect since the lists last changed
    late             \* a click made while pending was not answered yet

\* the state of the page
\* the state of SearchAndFilter and of what it asked
filter == << searchQuery, deferredSearchQuery, selectedCategory, filterDeps,
             queries >>

ui == << loaded, localTodos, filteredTodos, localCategories, optimistic,
         formState, formDeps, updateState, pending, handled, filter,
         effectRuns, late >>

vars == << db, todos, seq, categories, now, call, issued, run, ui >>

\* ----------------------------------------------------------------- helpers

Max(a, b) == IF a >= b THEN a ELSE b

SetMax(S) == IF S = {} THEN 0 ELSE CHOOSE m \in S : \A x \in S : x <= m

\* The string of n characters c.
Rep(c, n) == [ i \in 1..n |-> c ]

\* ------------------------------------------------------- String.prototype

IsWhiteSpace(c) == c \in { " ", "\t", "\n" }

RECURSIVE TrimStart(_)
TrimStart(s) ==
    IF s # << >> /\ IsWhiteSpace(Head(s)) THEN TrimStart(Tail(s)) ELSE s

RECURSIVE TrimEnd(_)
TrimEnd(s) ==
    IF s # << >> /\ IsWhiteSpace(s[Len(s)])
    THEN TrimEnd(SubSeq(s, 1, Len(s) - 1))
    ELSE s

\* trimStart() in place of trim()
TrimStartOnly(s) == TrimStart(s)

\* title.trim()
Trim(s) == TrimEnd(TrimStart(s))

\* formData.get(k) is null when the field was not submitted
Has(formData, k) == k \in DOMAIN formData

\* formData.get(k) as string || dflt : null and "" are both falsy
GetOr(formData, k, dflt) ==
    IF Has(formData, k) /\ formData[k] # "" THEN formData[k] ELSE dflt

\* --------------------------------------------------------- SQLite <-> Todo

\* todo.completed ? 1 : 0
ToInt(b) == IF b THEN 1 ELSE 0

\* Boolean(row.completed)
Boolean(n) == n # 0

\* SELECT ... created_at as createdAt, updated_at as updatedAt, then
\* { ...row, completed: Boolean(row.completed) }
RowToTodo(row) ==
    [ id        |-> row.id,
      title     |-> row.title,
      completed |-> Boolean(row.completed),
      category  |-> row.category,
      priority  |-> row.priority,
      createdAt |-> row.created_at,
      updatedAt |-> row.updated_at ]

\* The ORDER BY with its second key ascending: oldest first.
OrderedBeforeOldestFirst(r1, r2) ==
    \/ r1.completed < r2.completed
    \/ r1.completed = r2.completed /\ r1.created_at < r2.created_at

\* ORDER BY completed ASC, created_at DESC: r1 must come before r2
OrderedBefore(r1, r2) ==
    \/ r1.completed < r2.completed
    \/ r1.completed = r2.completed /\ r1.created_at > r2.created_at

\* The orders in which a SELECT ... ORDER BY completed ASC, created_at DESC
\* may return the rows of S: the order of rows that tie on both keys is not
\* fixed by the statement.
OrderedRows(S) ==
    { s \in [1..Cardinality(S) -> S] :
        /\ \A i, j \in 1..Cardinality(S) : i # j => s[i] # s[j]
        /\ \A i, j \in 1..Cardinality(S) : i < j => ~OrderedBefore(s[j], s[i]) }

MapRows(s) == [ i \in 1..Len(s) |-> RowToTodo(s[i]) ]

\* ------------------------------------------------------------- getDatabase

\* INSERT INTO categories without OR IGNORE and without the UNIQUE name: every
\* default is inserted again on each opening
SeedCategoriesAgain(cats) ==
    LET base == SetMax({ c.id : c \in cats })
    IN  cats \cup { [ id    |-> base + i,
                      name  |-> DefaultCategories[i].name,
                      color |-> DefaultCategories[i].color ] :
                    i \in 1..Len(DefaultCategories) }

\* INSERT OR IGNORE INTO categories: a default whose name is present is skipped
SeedCategories(cats) ==
    LET missing == SelectSeq(DefaultCategories,
                             LAMBDA d : \A c \in cats : c.name # d.name)
        base == SetMax({ c.id : c \in cats })
    IN  cats \cup { [ id    |-> base + i,
                      name  |-> missing[i].name,
                      color |-> missing[i].color ] : i \in 1..Len(missing) }

\* getDatabase(): opens and seeds on the first use, reuses the handle after
GetDatabase(isOpen, cats) == IF isOpen THEN cats ELSE SeedCategories(cats)

\* ------------------------------------------------------------- todoQueries

\* todoQueries.getAll: the sequences the query may return
GetAll(tbl) == { MapRows(s) : s \in OrderedRows(tbl) }

\* INTEGER PRIMARY KEY without AUTOINCREMENT: one more than the largest
\* rowid now in the table
NextRowIdOfTable(tbl, sq) == SetMax({ r.id : r \in tbl }) + 1

\* INTEGER PRIMARY KEY AUTOINCREMENT: one more than the largest rowid the
\* table ever held
NextRowId(tbl, sq) == Max(sq, SetMax({ r.id : r \in tbl })) + 1

\* todoQueries.create: INSERT, then SELECT the row of lastInsertRowid
InsertRow(tbl, sq, todo, t) ==
    [ id         |-> NextRowId(tbl, sq),
      title      |-> todo.title,
      completed  |-> ToInt(todo.completed),
      category   |-> todo.category,
      priority   |-> todo.priority,
      created_at |-> t,
      updated_at |-> t ]

\* getByCategory without its WHERE clause.
GetByCategoryUnfiltered(tbl, category) ==
    { MapRows(s) : s \in OrderedRows(tbl) }

\* todoQueries.getByCategory: WHERE category = ?
GetByCategory(tbl, category) ==
    { MapRows(s) : s \in OrderedRows({ r \in tbl : r.category = category }) }

Lower(c) ==
    CASE c = "A" -> "a"
      [] c = "B" -> "b"
      [] OTHER   -> c

RECURSIVE Like(_, _)
\* SQLite's  s LIKE p  (no ESCAPE): % matches any run of characters, _ any
\* one character, and ASCII letters match in either case
Like(p, s) ==
    IF p = << >> THEN s = << >>
    ELSE IF Head(p) = "%"
         THEN Like(Tail(p), s) \/ (s # << >> /\ Like(p, Tail(s)))
         ELSE /\ s # << >>
              /\ Head(p) = "_" \/ Lower(Head(p)) = Lower(Head(s))
              /\ Like(Tail(p), Tail(s))

\* todoQueries.search: WHERE title LIKE ? bound to `%${query}%`
Search(tbl, query) ==
    { MapRows(s) :
        s \in OrderedRows({ r \in tbl :
                              Like(<< "%" >> \o query \o << "%" >>, r.title) }) }

\* convertedUpdates: completed goes to 0 / 1, other values as they are
ConvertUpdates(updates) ==
    [ k \in DOMAIN updates |->
        IF k = "completed" /\ updates[k] \in BOOLEAN
        THEN ToInt(updates[k])
        ELSE updates[k] ]

\* The UPDATE stamping created_at in place of updated_at.
UpdateRowStampsCreated(row, updates, t) ==
    LET conv == ConvertUpdates(updates)
    IN  [ k \in DOMAIN row |->
            IF k = "created_at" THEN t
            ELSE IF k \in DOMAIN conv THEN conv[k]
            ELSE row[k] ]

\* The UPDATE writing the whole row: a column the update does not name goes
\* back to its default.
UpdateRowReplaces(row, updates, t) ==
    LET conv == ConvertUpdates(updates)
        dflt == [ title |-> row.title, completed |-> 0,
                  category |-> "general", priority |-> "medium" ]
    IN  [ k \in DOMAIN row |->
            IF k = "updated_at" THEN t
            ELSE IF k \in DOMAIN conv THEN conv[k]
            ELSE IF k \in DOMAIN dflt THEN dflt[k]
            ELSE row[k] ]

\* UPDATE todos SET <fields>, updated_at = CURRENT_TIMESTAMP WHERE id = ?
UpdateRow(row, updates, t) ==
    LET conv == ConvertUpdates(updates)
    IN  [ k \in DOMAIN row |->
            IF k = "updated_at" THEN t
            ELSE IF k \in DOMAIN conv THEN conv[k]
            ELSE row[k] ]

\* todoQueries.update: the UPDATE, then the SELECT of the row and
\* { ...row, completed: Boolean(row.completed) }, which throws a TypeError
\* when no row has this id (row is undefined)
Update(tbl, id, updates, t) ==
    LET after == { IF r.id = id THEN UpdateRow(r, updates, t) ELSE r : r \in tbl }
        found == { r \in after : r.id = id }
    IN  IF found = {}
        THEN [ todos |-> after, threw |-> TRUE ]
        ELSE [ todos |-> after, threw |-> FALSE,
               row |-> RowToTodo(CHOOSE r \in found : TRUE) ]

\* DELETE FROM todos WHERE id <= ?: also removes every older row
DeleteThrough(tbl, id) == { r \in tbl : r.id > id }

\* todoQueries.delete: DELETE FROM todos WHERE id = ?
Delete(tbl, id) == { r \in tbl : r.id # id }

\* ORDER BY c.name over the names the categories table can hold: the
\* defaults in alphabetical order
NamesInOrder == << "general", "personal", "shopping", "work" >>

\* the rows of S by ascending id
RECURSIVE ById(_)
ById(S) ==
    IF S = {} THEN << >>
    ELSE LET first == CHOOSE c \in S : \A d \in S : c.id <= d.id
         IN  << first >> \o ById(S \ { first })

\* the groups of GROUP BY c.id, c.name, c.color, in the order of ORDER BY
\* c.name from the k-th name on
RECURSIVE GroupsFrom(_, _)
GroupsFrom(cats, k) ==
    IF k > Len(NamesInOrder) THEN << >>
    ELSE ById({ c \in cats : c.name = NamesInOrder[k] }) \o GroupsFrom(cats, k + 1)

\* todoQueries.getCategories: categories LEFT JOIN todos ON c.name =
\* t.category, COUNT(t.id) per category
GetCategories(tbl, cats) ==
    LET groups == GroupsFrom(cats, 1)
    IN  [ i \in 1..Len(groups) |->
            [ id    |-> groups[i].id,
              name  |-> groups[i].name,
              color |-> groups[i].color,
              count |-> Cardinality({ t \in tbl : t.category = groups[i].name }) ] ]

\* --------------------------------------------------------------- the state

\* call when no server action has returned a result that is still to be used
NoCall == [ op |-> "none" ]

\* The server runs one action at a time, each to its end.
Idle == call.op = "none"

\* The ids a request may name: a rowid is missing before it is handed out
\* and after its row is deleted.
Ids == 1..MaxId

\* pending when every request of the page has been answered
NoReq == [ op |-> "none" ]

\* handled when the last step of the page was a click or a submission
NoHandled == [ op |-> "none" ]

\* the initial state given to useActionState: { success: false, message: '',
\* error: '', data: undefined }
InitialState == [ success |-> FALSE, message |-> "", error |-> "" ]

\* updateState.success and updateState.data, the two fields of the state of
\* useActionState(updateTodoAction) that TodoItem's effect reads
SuccessAndData(state) ==
    IF state.success /\ "data" \in DOMAIN state
    THEN [ success |-> TRUE, data |-> state.data ]
    ELSE [ success |-> state.success ]

\* state.data when the state has no data
NoData == [ id |-> 0 ]

\* [state.success, state.error, state.data]: the dependencies of the effect
\* of TodoForm that come from the state (onTodoAdded never changes)
Deps(state) ==
    << state.success,
       IF "error" \in DOMAIN state THEN state.error ELSE "undefined",
       IF "data" \in DOMAIN state THEN state.data ELSE NoData >>

\* run when no task is observed
NoRun == [ id |-> 0 ]

Init ==
    /\ db = FALSE
    /\ todos = {}
    /\ seq = 0
    /\ categories = {}
    /\ now = 0
    /\ call = NoCall
    /\ issued = << >>
    /\ run = NoRun
    /\ loaded = FALSE
    /\ localTodos = << >>
    /\ filteredTodos = << >>
    /\ localCategories = << >>
    /\ optimistic = {}
    /\ formState = InitialState
    /\ formDeps = Deps(InitialState)
    /\ updateState = [ id \in Ids |-> SuccessAndData(InitialState) ]
    /\ pending = NoReq
    /\ handled = NoHandled
    /\ searchQuery = << >>
    /\ deferredSearchQuery = << >>
    /\ selectedCategory = "all"
    /\ filterDeps = << << >>, "all" >>
    /\ queries = << >>
    /\ effectRuns = 0
    /\ late = NoReq

\* A statement of the store either runs or throws: "before" is a throw of
\* the action's first statement, "after" a throw of the SELECT that reads the
\* written row back.
Faults == { "none", "before", "after" }

ReadFaults == { "none", "before" }

\* A server action that reaches the store starts by getDatabase().
Open ==
    /\ db' = TRUE
    /\ categories' = GetDatabase(db, categories)

\* The server actions declared to return an array (of Todo, of Category)
\* and not an ActionState: searchTodosAction, getTodosByCategoryAction,
\* getAllTodosAction, getAllCategoriesAction.
ArrayActions == { "search", "byCategory", "getAll", "getCategories" }

\* The fields of ActionState.
ActionStateFields == { "success", "message", "error", "data" }

\* What call records of a server action: its name, its argument, the fault
\* of the store during it ("none" when the action returned before the
\* statement that would have thrown), the table before it, and what it
\* returned.
Called(op, arg, fault, r) ==
    [ op |-> op, arg |-> arg, fault |-> fault, pre |-> todos, ret |-> r ]

\* createTodoAction(prevState, formData)
CreateTodoAction(formData, fault) ==
    LET title    == IF Has(formData, "title") THEN formData.title ELSE << >>
        category == GetOr(formData, "category", "general")
        priority == GetOr(formData, "priority", "medium")
        row      == InsertRow(todos, seq,
                              [ title |-> Trim(title), completed |-> FALSE,
                                category |-> category, priority |-> priority ],
                              now)
        rec(r)   == Called("create", formData, fault, r)
        early(r) == Called("create", formData, "none", r)
    IN
    /\ Idle
    /\ UNCHANGED << now, run, ui >>
    /\ IF ~Has(formData, "title") \/ Len(Trim(title)) = 0 THEN
           /\ call' = early([ success |-> FALSE, error |-> ErrTitleRequired ])
           /\ UNCHANGED << db, todos, seq, categories, issued >>
       ELSE IF Len(Trim(title)) > MaxTitleLen THEN
           /\ call' = early([ success |-> FALSE, error |-> ErrTitleTooLong ])
           /\ UNCHANGED << db, todos, seq, categories, issued >>
       ELSE
           /\ Open
           /\ IF fault = "before" THEN
                  /\ call' = rec([ success |-> FALSE, error |-> ErrCreate ])
                  /\ UNCHANGED << todos, seq, issued >>
              ELSE
                  /\ seq < MaxId
                  /\ todos' = todos \cup { row }
                  /\ seq' = row.id
                  /\ issued' = Append(issued, row.id)
                  /\ call' = IF fault = "after"
                             THEN rec([ success |-> FALSE, error |-> ErrCreate ])
                             ELSE rec([ success |-> TRUE, message |-> MsgCreated,
                                        data |-> RowToTodo(row) ])

\* the updates of a toggle that marks the task completed whatever it was
ToggledUpdatesDone(todo) == [ completed |-> TRUE ]

\* { completed: !todo.completed }
ToggledUpdates(todo) == [ completed |-> ~todo.completed ]

\* run after a toggle of id: a confirmed toggle of the observed task counts,
\* a write that was not confirmed ends the observation, and so does a run
\* of MaxToggles toggles
Counted(id, written, confirmed) ==
    IF run.id # id \/ ~written THEN run
    ELSE IF ~confirmed \/ run.n = MaxToggles THEN NoRun
    ELSE [ run EXCEPT !.n = @ + 1 ]

\* toggleTodoAction(id)
ToggleTodoAction(id, fault) ==
    LET found  == { r \in todos : r.id = id }
        rec(r) == Called("toggle", id, fault, r)
    IN
    /\ Idle
    /\ Open
    /\ UNCHANGED << seq, now, issued, ui >>
    /\ IF fault = "before" THEN
           \* todoQueries.getAll() throws
           /\ call' = rec([ success |-> FALSE, error |-> ErrUpdate ])
           /\ UNCHANGED todos
           /\ run' = Counted(id, FALSE, FALSE)
       ELSE IF found = {} THEN
           \* todos.find(t => t.id === id) is undefined
           /\ call' = Called("toggle", id, "none",
                            [ success |-> FALSE, error |-> ErrNotFound ])
           /\ UNCHANGED todos
           /\ run' = Counted(id, FALSE, FALSE)
       ELSE
           LET todo == RowToTodo(CHOOSE r \in found : TRUE)
               upd  == Update(todos, id, ToggledUpdates(todo), now)
           IN  /\ todos' = upd.todos
               /\ run' = Counted(id, TRUE, ~(fault = "after" \/ upd.threw))
               /\ call' = IF fault = "after" \/ upd.threw
                          THEN rec([ success |-> FALSE, error |-> ErrUpdate ])
                          ELSE rec([ success |-> TRUE,
                                     message |-> IF upd.row.completed
                                                 THEN MsgCompleted
                                                 ELSE MsgReopened,
                                     data |-> upd.row ])

\* deleteTodoAction(id)
DeleteTodoAction(id, fault) ==
    LET rec(r) == Called("delete", id, fault, r)
    IN
    /\ Idle
    /\ Open
    /\ UNCHANGED << seq, now, issued, run, ui >>
    /\ IF fault = "before" THEN
           /\ call' = rec([ success |-> FALSE, error |-> ErrDelete ])
           /\ UNCHANGED todos
       ELSE
           /\ todos' = Delete(todos, id)
           /\ call' = rec([ success |-> TRUE, message |-> MsgDeleted ])

\* updateTodoAction(id, prevState, formData); the edit form of TodoItem
\* always submits title, category and priority
UpdateTodoAction(id, formData, fault) ==
    LET title  == formData.title
        rec(r) == Called("update", [ id |-> id, form |-> formData ], fault, r)
        early(r) == Called("update", [ id |-> id, form |-> formData ], "none", r)
        upd    == Update(todos, id,
                         [ title    |-> Trim(title),
                           category |-> formData.category,
                           priority |-> formData.priority ],
                         now)
    IN
    /\ Idle
    /\ UNCHANGED << seq, now, issued, run, ui >>
    /\ IF Len(Trim(title)) = 0 THEN
           /\ call' = early([ success |-> FALSE, error |-> ErrTitleRequired ])
           /\ UNCHANGED << db, todos, categories >>
       ELSE IF Len(Trim(title)) > MaxTitleLen THEN
           /\ call' = early([ success |-> FALSE, error |-> ErrTitleTooLong ])
           /\ UNCHANGED << db, todos, categories >>
       ELSE
           /\ Open
           /\ IF fault = "before" THEN
                  /\ call' = rec([ success |-> FALSE, error |-> ErrUpdate ])
                  /\ UNCHANGED todos
              ELSE
                  /\ todos' = upd.todos
                  /\ call' = IF fault = "after" \/ upd.threw
                             THEN rec([ success |-> FALSE, error |-> ErrUpdate ])
                             ELSE rec([ success |-> TRUE, message |-> MsgUpdated,
                                        data |-> upd.row ])

\* searchTodosAction without its blank-query branch and without trim():
\* every query goes to todoQueries.search as typed.
SearchTodosActionAsTyped(query, fault) ==
    /\ Idle
    /\ Open
    /\ \E r \in Search(todos, query) :
          call' = Called("search", query, fault,
                         IF fault = "none" THEN r ELSE << >>)
    /\ UNCHANGED << todos, seq, now, issued, run, ui >>

\* searchTodosAction(query)
SearchTodosAction(query, fault) ==
    /\ Idle
    /\ Open
    /\ \E r \in IF Len(Trim(query)) = 0
                THEN GetAll(todos)
                ELSE Search(todos, Trim(query)) :
          call' = Called("search", query, fault,
                         IF fault = "none" THEN r ELSE << >>)
    /\ UNCHANGED << todos, seq, now, issued, run, ui >>

\* getTodosByCategoryAction(category)
GetTodosByCategoryAction(category, fault) ==
    /\ Idle
    /\ Open
    /\ \E r \in IF category = "all"
                THEN GetAll(todos)
                ELSE GetByCategory(todos, category) :
          call' = Called("byCategory", category, fault,
                         IF fault = "none" THEN r ELSE << >>)
    /\ UNCHANGED << todos, seq, now, issued, run, ui >>

\* getAllTodosAction()
GetAllTodosAction(fault) ==
    /\ Idle
    /\ Open
    /\ \E r \in GetAll(todos) :
          call' = Called("getAll", << >>, fault,
                         IF fault = "none" THEN r ELSE << >>)
    /\ UNCHANGED << todos, seq, now, issued, run, ui >>

\* getAllCategoriesAction()
GetAllCategoriesAction(fault) ==
    /\ Idle
    /\ Open
    /\ call' = Called("getCategories", << >>, fault,
                      IF fault = "none"
                      THEN GetCategories(todos, categories')
                      ELSE << >>)
    /\ UNCHANGED << todos, seq, now, issued, run, ui >>

\* The server process is restarted: the module-level handle is gone, the
\* file todos.db stays.
Restart ==
    /\ Idle
    /\ db
    /\ db' = FALSE
    /\ UNCHANGED << todos, seq, categories, now, call, issued, run, ui >>

\* The completion flag of a stored task is noted, to follow the toggles
\* that come after.
Observe(id) ==
    /\ Idle
    /\ run = NoRun
    /\ \E r \in todos :
          /\ r.id = id
          /\ run' = [ id |-> id, orig |-> Boolean(r.completed), n |-> 0 ]
    /\ UNCHANGED << db, todos, seq, categories, now, call, issued, ui >>

\* The action's promise resolves: its caller takes the result.
Return ==
    /\ ~Idle
    /\ call' = NoCall
    /\ UNCHANGED << db, todos, seq, categories, now, issued, run, ui >>

\* One second passes between two server actions.
Tick ==
    /\ Idle
    /\ now < MaxTime
    /\ now' = now + 1
    /\ UNCHANGED << db, todos, seq, categories, call, issued, run, ui >>

\* ----------------------------------------------------------------- the page

\* the three states of Home that the handlers write
Local ==
    [ todos |-> localTodos, filtered |-> filteredTodos,
      categories |-> localCategories ]

SetLocal(s) ==
    /\ localTodos' = s.todos
    /\ filteredTodos' = s.filtered
    /\ localCategories' = s.categories

\* [newTodo, ...prev]
Prepend(l, t) == << t >> \o l

\* prev.map(todo => todo.id === updatedTodo.id ? updatedTodo : todo)
ReplaceById(l, t) == [ i \in 1..Len(l) |-> IF l[i].id = t.id THEN t ELSE l[i] ]

\* prev.filter(todo => todo.id !== id)
RemoveById(l, id) == SelectSeq(l, LAMBDA t : t.id # id)

\* prev.map(cat => cat.name === name ? { ...cat, count: cat.count + d } : cat)
AddToCount(cats, name, d) ==
    [ i \in 1..Len(cats) |->
        IF cats[i].name = name
        THEN [ cats[i] EXCEPT !.count = @ + d ]
        ELSE cats[i] ]

\* todos.find(t => t.id === id): the matches, in list order
Find(l, id) == SelectSeq(l, LAMBDA t : t.id = id)

\* handleTodoAdded that puts the new task in the full list only
HandleTodoAddedToFullList(s, newTodo) ==
    [ todos      |-> Prepend(s.todos, newTodo),
      filtered   |-> s.filtered,
      categories |-> AddToCount(s.categories, newTodo.category, 1) ]

\* handleTodoAdded(newTodo)
HandleTodoAdded(s, newTodo) ==
    [ todos      |-> Prepend(s.todos, newTodo),
      filtered   |-> Prepend(s.filtered, newTodo),
      categories |-> AddToCount(s.categories, newTodo.category, 1) ]

\* handleTodoUpdated that replaces the task in the full list only
HandleTodoUpdatedInFullList(s, updatedTodo) ==
    [ todos      |-> ReplaceById(s.todos, updatedTodo),
      filtered   |-> s.filtered,
      categories |-> s.categories ]

\* handleTodoUpdated(updatedTodo) as created by useCallback(..., [todos]) in
\* the render whose state todos is todosOfRender: the functional updates
\* work on the state s they find, originalTodo is looked up in todosOfRender
HandleTodoUpdatedBy(todosOfRender, s, updatedTodo) ==
    LET original == Find(todosOfRender, updatedTodo.id)
    IN  [ todos      |-> ReplaceById(s.todos, updatedTodo),
          filtered   |-> ReplaceById(s.filtered, updatedTodo),
          categories |->
              IF original # << >> /\ original[1].category # updatedTodo.category
              THEN [ i \in 1..Len(s.categories) |->
                       LET cat == s.categories[i]
                       IN  IF cat.name = original[1].category
                           THEN [ cat EXCEPT !.count = @ - 1 ]
                           ELSE IF cat.name = updatedTodo.category
                           THEN [ cat EXCEPT !.count = @ + 1 ]
                           ELSE cat ]
              ELSE s.categories ]

\* handleTodoUpdated(updatedTodo) of the render that shows s
HandleTodoUpdated(s, updatedTodo) ==
    HandleTodoUpdatedBy(s.todos, s, updatedTodo)

\* handleTodoDeleted(id) as created by useCallback(..., [todos]) in the
\* render whose state todos is todosOfRender
HandleTodoDeletedBy(todosOfRender, s, id) ==
    LET todoToDelete == Find(todosOfRender, id)
    IN  [ todos      |-> RemoveById(s.todos, id),
          filtered   |-> RemoveById(s.filtered, id),
          categories |-> IF todoToDelete # << >>
                         THEN AddToCount(s.categories, todoToDelete[1].category, -1)
                         ELSE s.categories ]

\* handleTodoDeleted(id) of the render that shows s
HandleTodoDeleted(s, id) == HandleTodoDeletedBy(s.todos, s, id)

\* a TodoItem with key id is rendered
Mounted(id) == Find(filteredTodos, id) # << >>

\* optimisticTodo.completed of the TodoItem with key id: the reducer of
\* useOptimistic applied to the prop while its transition is pending
OptimisticCompleted(id) ==
    LET todo == Find(filteredTodos, id)[1]
    IN  IF id \in optimistic THEN ~todo.completed ELSE todo.completed

\* the effect of the TodoItem with key id would change the state of Home
UpdateEffectDue(id) ==
    /\ Mounted(id)
    /\ updateState[id].success
    /\ "data" \in DOMAIN updateState[id]
    /\ HandleTodoUpdated(Local, updateState[id].data) # Local

\* The page is at rest: the transitions have settled and no effect is left
\* to run.  React runs them in the render pass that follows a state change,
\* before the user clicks again.
Settled ==
    /\ loaded
    /\ pending = NoReq
    /\ late = NoReq
    /\ Idle
    /\ optimistic = {}
    /\ formDeps = Deps(formState)
    /\ filterDeps = << deferredSearchQuery, selectedCategory >>
    /\ \A id \in Ids : ~UpdateEffectDue(id)

\* what the steps of the page leave alone
store == << db, todos, seq, categories, now, issued, run >>

\* loadData(): getAllTodosAction(), then getAllCategoriesAction(), both
\* answered by the store
LoadData ==
    /\ ~loaded
    /\ Idle
    /\ Open
    /\ loaded' = TRUE
    /\ \E allTodos \in GetAll(todos) :
          /\ localTodos' = allTodos
          /\ filteredTodos' = allTodos
    /\ localCategories' = GetCategories(todos, categories')
    /\ UNCHANGED << todos, seq, now, call, issued, run, optimistic, formState,
                    formDeps, updateState, pending, handled, filter,
                    effectRuns, late >>

\* React ends the transition of a TodoItem, which has no asynchronous
\* part: the optimistic state is dropped and the prop shows again.
TransitionSettles(id) ==
    /\ id \in optimistic
    /\ optimistic' = optimistic \ { id }
    /\ UNCHANGED << store, filter, effectRuns, late >>
    /\ UNCHANGED << call, loaded, localTodos, filteredTodos,
                    localCategories, formState, formDeps, updateState,
                    pending, handled >>

\* handleToggle up to its await
HandleToggle(id) ==
    /\ Settled
    /\ Mounted(id)
    /\ optimistic' = optimistic \cup { id }
    /\ pending' = [ op |-> "toggle", id |-> id, flips |-> 1,
                    shown |-> OptimisticCompleted(id), before |-> Local ]
    /\ handled' = NoHandled
    /\ UNCHANGED << store, filter, effectRuns, late >>
    /\ UNCHANGED << call, loaded, localTodos, filteredTodos,
                    localCategories, formState, formDeps, updateState >>

\* the server runs the toggle request
ServeToggle(fault) ==
    /\ pending.op = "toggle"
    /\ ToggleTodoAction(pending.id, fault)

\* handleToggle after its await, the promise fulfilled
ToggleResolved ==
    LET confirmed == call.ret.success /\ "data" \in DOMAIN call.ret
    IN
    /\ pending.op = "toggle"
    /\ call.op = "toggle"
    /\ pending.id \notin optimistic
    /\ IF confirmed
       THEN SetLocal(HandleTodoUpdated(Local, call.ret.data))
       ELSE UNCHANGED << localTodos, filteredTodos, localCategories >>
    /\ handled' = [ op |-> "toggle", id |-> pending.id,
                    outcome |-> IF confirmed THEN "confirmed" ELSE "failed",
                    flips |-> pending.flips, shown |-> pending.shown ]
    /\ pending' = NoReq
    /\ call' = NoCall
    /\ UNCHANGED << store, filter, effectRuns, late >>
    /\ UNCHANGED << loaded, optimistic, formState, formDeps, updateState >>

\* handleToggle's catch: the call of the server action was rejected, the
\* request lost before the server ran it
ToggleRejected ==
    /\ pending.op = "toggle"
    /\ Idle
    /\ pending.id \notin optimistic
    /\ optimistic' = optimistic \cup { pending.id }
    /\ handled' = [ op |-> "toggle", id |-> pending.id, outcome |-> "rejected",
                    flips |-> pending.flips + 1, shown |-> pending.shown ]
    /\ pending' = NoReq
    /\ UNCHANGED << store, filter, effectRuns, late >>
    /\ UNCHANGED << call, loaded, localTodos, filteredTodos,
                    localCategories, formState, formDeps, updateState >>

\* handleDelete without its confirmation: the request is sent at once
HandleDeleteUnasked(id, answer) ==
    /\ Settled
    /\ Mounted(id)
    /\ pending' = [ op |-> "delete", id |-> id, answer |-> answer,
                    before |-> Local ]
    /\ handled' = NoHandled
    /\ UNCHANGED << store, filter, effectRuns, late >>
    /\ UNCHANGED << call, loaded, localTodos, filteredTodos,
                    localCategories, optimistic, formState, formDeps,
                    updateState >>

\* handleDelete up to its await: confirm(...) is answered by the user
HandleDelete(id, answer) ==
    /\ Settled
    /\ Mounted(id)
    /\ IF answer
       THEN /\ pending' = [ op |-> "delete", id |-> id, answer |-> answer,
                            before |-> Local ]
            /\ handled' = NoHandled
       ELSE /\ pending' = pending
            /\ handled' = [ op |-> "delete", id |-> id, outcome |-> "declined" ]
    /\ UNCHANGED << store, filter, effectRuns, late >>
    /\ UNCHANGED << call, loaded, localTodos, filteredTodos,
                    localCategories, optimistic, formState, formDeps,
                    updateState >>

\* the server runs the delete request
ServeDelete(fault) ==
    /\ pending.op = "delete"
    /\ DeleteTodoAction(pending.id, fault)

\* handleDelete after its await, the promise fulfilled; the TodoItem of a
\* task that left the displayed list is unmounted
DeleteResolved ==
    /\ pending.op = "delete"
    /\ call.op = "delete"
    /\ IF call.ret.success
       THEN /\ SetLocal(HandleTodoDeleted(Local, pending.id))
            /\ updateState' = [ updateState EXCEPT
                                  ![pending.id] = SuccessAndData(InitialState) ]
       ELSE UNCHANGED << localTodos, filteredTodos, localCategories, updateState >>
    /\ handled' = [ op |-> "delete", id |-> pending.id,
                    outcome |-> IF call.ret.success THEN "confirmed" ELSE "failed" ]
    /\ pending' = NoReq
    /\ call' = NoCall
    /\ UNCHANGED << store, filter, effectRuns, late >>
    /\ UNCHANGED << loaded, optimistic, formState, formDeps >>

\* handleDelete's catch
DeleteRejected ==
    /\ pending.op = "delete"
    /\ Idle
    /\ handled' = [ op |-> "delete", id |-> pending.id, outcome |-> "rejected" ]
    /\ pending' = NoReq
    /\ UNCHANGED << store, filter, effectRuns, late >>
    /\ UNCHANGED << call, loaded, localTodos, filteredTodos,
                    localCategories, optimistic, formState, formDeps,
                    updateState >>

\* a submission that shows the task at once, before the store has answered
SubmitCreateOptimistic(formData) ==
    /\ Settled
    /\ pending' = [ op |-> "create", form |-> formData, before |-> Local ]
    /\ handled' = NoHandled
    /\ filteredTodos' = Prepend(filteredTodos,
                                [ id |-> 0, title |-> formData.title,
                                  completed |-> FALSE,
                                  category |-> formData.category,
                                  priority |-> formData.priority,
                                  createdAt |-> now, updatedAt |-> now ])
    /\ UNCHANGED << store, filter, effectRuns, late >>
    /\ UNCHANGED << call, loaded, localTodos, localCategories,
                    optimistic, formState, formDeps, updateState >>

\* the form of TodoForm is submitted: formAction(formData)
SubmitCreate(formData) ==
    /\ Settled
    /\ pending' = [ op |-> "create", form |-> formData, before |-> Local ]
    /\ handled' = NoHandled
    /\ UNCHANGED << store, filter, effectRuns, late >>
    /\ UNCHANGED << call, loaded, localTodos, filteredTodos,
                    localCategories, optimistic, formState, formDeps,
                    updateState >>

\* the server runs the create request
ServeCreate(fault) ==
    /\ pending.op = "create"
    /\ CreateTodoAction(pending.form, fault)

\* useActionState of TodoForm takes the result of createTodoAction
CreateResolved ==
    /\ pending.op = "create"
    /\ call.op = "create"
    /\ formState' = call.ret
    /\ handled' = [ op |-> "create",
                    outcome |-> IF call.ret.success THEN "confirmed" ELSE "failed" ]
    /\ pending' = NoReq
    /\ call' = NoCall
    /\ UNCHANGED << store, filter, effectRuns, late >>
    /\ UNCHANGED << loaded, localTodos, filteredTodos, localCategories,
                    optimistic, formDeps, updateState >>

\* the effect of TodoForm, run when one of its dependencies has changed
CreateEffect ==
    /\ pending = NoReq
    /\ formDeps # Deps(formState)
    /\ formDeps' = Deps(formState)
    /\ IF formState.success /\ "data" \in DOMAIN formState
       THEN /\ SetLocal(HandleTodoAdded(Local, formState.data))
            /\ handled' = [ op |-> "create", id |-> formState.data.id,
                            outcome |-> "added" ]
       ELSE UNCHANGED << localTodos, filteredTodos, localCategories, handled >>
    /\ UNCHANGED << store, filter, effectRuns, late >>
    /\ UNCHANGED << call, loaded, optimistic, formState, updateState,
                    pending >>

\* the edit form of the TodoItem with key id is submitted:
\* updateFormAction(formData)
SubmitEdit(id, formData) ==
    /\ Settled
    /\ Mounted(id)
    /\ pending' = [ op |-> "edit", id |-> id, form |-> formData,
                    before |-> Local ]
    /\ handled' = NoHandled
    /\ UNCHANGED << store, filter, effectRuns, late >>
    /\ UNCHANGED << call, loaded, localTodos, filteredTodos,
                    localCategories, optimistic, formState, formDeps,
                    updateState >>

\* the server runs the edit request
ServeEdit(fault) ==
    /\ pending.op = "edit"
    /\ UpdateTodoAction(pending.id, pending.form, fault)

\* useActionState of the TodoItem takes the result of updateTodoAction
EditResolved ==
    /\ pending.op = "edit"
    /\ call.op = "update"
    /\ updateState' = [ updateState EXCEPT
                          ![pending.id] = SuccessAndData(call.ret) ]
    /\ handled' = [ op |-> "edit", id |-> pending.id,
                    outcome |-> IF call.ret.success THEN "confirmed" ELSE "failed" ]
    /\ pending' = NoReq
    /\ call' = NoCall
    /\ UNCHANGED << store, filter, effectRuns, late >>
    /\ UNCHANGED << loaded, localTodos, filteredTodos, localCategories,
                    optimistic, formState, formDeps >>

\* The effect of the TodoItem with key id.  Its dependency onTodoUpdated is
\* a new function whenever the state todos of Home was set, and the effect
\* sets that state: once updateState.success is true the effect runs after
\* every render.  A run that leaves the lists as they are is not a step.
UpdateEffect(id) ==
    /\ pending = NoReq
    /\ UpdateEffectDue(id)
    /\ SetLocal(HandleTodoUpdated(Local, updateState[id].data))
    /\ handled' = [ op |-> "edit", id |-> id, outcome |-> "reconciled" ]
    /\ UNCHANGED << store, filter, effectRuns, late >>
    /\ UNCHANGED << call, loaded, optimistic, formState, formDeps,
                    updateState, pending >>

\* The effect of the TodoItem with key id runs again and leaves the lists as
\* they are.  Its last run called handleTodoUpdated, whose setTodos put a
\* new array (prev.map) into the state todos; Home rendered, useCallback(...,
\* [todos]) returned a new handleTodoUpdated, and so the dependency
\* onTodoUpdated of the effect has changed.  The runs are counted up to
\* MaxEffectRuns.
UpdateEffectAgain(id) ==
    /\ pending = NoReq
    /\ Idle
    /\ Mounted(id)
    /\ updateState[id].success
    /\ "data" \in DOMAIN updateState[id]
    /\ ~UpdateEffectDue(id)
    /\ effectRuns < MaxEffectRuns
    /\ SetLocal(HandleTodoUpdated(Local, updateState[id].data))
    /\ effectRuns' = effectRuns + 1
    /\ UNCHANGED << store, filter, late, call, loaded, optimistic, formState,
                    formDeps, updateState, pending, handled >>

\* The effects that follow an answer have run.
EffectsFlushed ==
    /\ formDeps = Deps(formState)
    /\ \A id \in Ids : ~UpdateEffectDue(id)

\* handleToggle up to its await, clicked while the answer to an earlier
\* request is awaited: the button of a TodoItem is never disabled, and the
\* form of an item under edit is left by its cancel button.  onTodoUpdated
\* is the function of the render that shows the click.
HandleToggleLate(id) ==
    /\ loaded
    /\ pending # NoReq
    /\ late = NoReq
    /\ Idle
    /\ Mounted(id)
    /\ optimistic' = optimistic \cup { id }
    /\ late' = [ op |-> "toggle", id |-> id, todos |-> localTodos ]
    /\ UNCHANGED << store, filter, effectRuns, call, loaded, localTodos,
                    filteredTodos, localCategories, formState, formDeps,
                    updateState, pending, handled >>

\* handleDelete up to its await, clicked and confirmed while the answer to
\* an earlier request is awaited
HandleDeleteLate(id) ==
    /\ loaded
    /\ pending # NoReq
    /\ late = NoReq
    /\ Idle
    /\ Mounted(id)
    /\ late' = [ op |-> "delete", id |-> id, todos |-> localTodos ]
    /\ UNCHANGED << store, filter, effectRuns, call, loaded, localTodos,
                    filteredTodos, localCategories, optimistic, formState,
                    formDeps, updateState, pending, handled >>

\* The server runs the later request once the earlier one is answered: the
\* requests of one page reach the server in the order of the clicks.
ServeLate(fault) ==
    /\ late # NoReq
    /\ pending = NoReq
    /\ optimistic = {}
    /\ EffectsFlushed
    /\ IF late.op = "toggle"
       THEN ToggleTodoAction(late.id, fault)
       ELSE DeleteTodoAction(late.id, fault)

\* handleToggle or handleDelete of the later click after its await
LateResolved ==
    LET confirmed ==
            /\ call.ret.success
            /\ late.op = "toggle" => "data" \in DOMAIN call.ret
    IN
    /\ late # NoReq
    /\ pending = NoReq
    /\ call.op = late.op
    /\ IF ~confirmed
       THEN UNCHANGED << localTodos, filteredTodos, localCategories, updateState >>
       ELSE IF late.op = "toggle"
       THEN /\ SetLocal(HandleTodoUpdatedBy(late.todos, Local, call.ret.data))
            /\ UNCHANGED updateState
       ELSE /\ SetLocal(HandleTodoDeletedBy(late.todos, Local, late.id))
            /\ updateState' = [ updateState EXCEPT
                                  ![late.id] = SuccessAndData(InitialState) ]
    /\ handled' = [ op |-> late.op, id |-> late.id,
                    outcome |-> IF confirmed THEN "confirmed" ELSE "failed" ]
    /\ late' = NoReq
    /\ call' = NoCall
    /\ UNCHANGED << store, filter, effectRuns, loaded, optimistic, formState,
                    formDeps, pending >>

\* ------------------------------------------------------- SearchAndFilter

\* what the page keeps next to the state of SearchAndFilter
page == << loaded, localTodos, localCategories, optimistic, formState,
           formDeps, pending, handled, effectRuns, late >>

\* [deferredSearchQuery, selectedCategory]
FilterDeps == << deferredSearchQuery, selectedCategory >>

\* the request of the effect that takes every text that is not empty for a
\* query
QueryForNonEmpty(text, category) ==
    IF text # << >>
    THEN [ op |-> "search", arg |-> text ]
    ELSE [ op |-> "byCategory", arg |-> category ]

\* the request of the effect: if (deferredSearchQuery.trim()) search, else
\* filter by category
QueryFor(text, category) ==
    IF Trim(text) # << >>
    THEN [ op |-> "search", arg |-> text ]
    ELSE [ op |-> "byCategory", arg |-> category ]

\* the state of the TodoItems once the displayed list is l: the item of a
\* task that is not displayed is unmounted and its state is gone
Remounted(l) ==
    [ id \in Ids |-> IF Find(l, id) = << >>
                     THEN SuccessAndData(InitialState)
                     ELSE updateState[id] ]

\* onChange of the search input, and the button that clears it:
\* setSearchQuery(value)
SetSearchQuery(value) ==
    /\ Settled
    /\ queries = << >>
    /\ value # searchQuery
    /\ searchQuery' = value
    /\ UNCHANGED << store, call, page, filteredTodos, updateState,
                    deferredSearchQuery, selectedCategory, filterDeps, queries >>

\* React renders again with the deferred value caught up; the effects of
\* the render before have run
DeferredRender ==
    /\ loaded
    /\ deferredSearchQuery # searchQuery
    /\ filterDeps = FilterDeps
    /\ deferredSearchQuery' = searchQuery
    /\ UNCHANGED << store, call, page, filteredTodos, updateState,
                    searchQuery, selectedCategory, filterDeps, queries >>

\* handleCategorySelect(category): setSearchQuery(''), then
\* onCategoryChange(category), which is setSelectedCategory
HandleCategorySelect(category) ==
    /\ Settled
    /\ queries = << >>
    /\ searchQuery' = << >>
    /\ selectedCategory' = category
    /\ handled' = [ op |-> "select", category |-> category,
                    text |-> searchQuery ]
    /\ UNCHANGED << store, call, loaded, localTodos, localCategories,
                    optimistic, formState, formDeps, pending, effectRuns, late,
                    filteredTodos, updateState, deferredSearchQuery,
                    filterDeps, queries >>

\* the effect of SearchAndFilter up to its await, run when one of its
\* dependencies has changed: the request leaves
FilterEffect ==
    /\ loaded
    /\ filterDeps # FilterDeps
    /\ Len(queries) < MaxInFlight
    /\ filterDeps' = FilterDeps
    /\ queries' = Append(queries,
                         [ query    |-> QueryFor(deferredSearchQuery,
                                                 selectedCategory),
                           deps     |-> FilterDeps,
                           answered |-> FALSE ])
    /\ UNCHANGED << store, call, page, filteredTodos, updateState,
                    searchQuery, deferredSearchQuery, selectedCategory >>

\* the oldest query that the server has not run yet
Unanswered == SelectSeq(queries, LAMBDA q : ~q.answered)

\* the server runs the oldest query it has not run yet
ServeQuery(fault) ==
    /\ Unanswered # << >>
    /\ LET q == Unanswered[1].query
       IN  IF q.op = "search"
           THEN SearchTodosAction(q.arg, fault)
           ELSE GetTodosByCategoryAction(q.arg, fault)

\* the answer of the server leaves for the page
QueryAnswered ==
    /\ call.op \in { "search", "byCategory" }
    /\ \E i \in 1..Len(queries) :
          /\ ~queries[i].answered
          /\ \A j \in 1..(i - 1) : queries[j].answered
          /\ queries' = [ queries EXCEPT ![i] =
                            [ query    |-> @.query,
                              deps     |-> @.deps,
                              answered |-> TRUE,
                              fault    |-> call.fault,
                              pre      |-> call.pre,
                              ret      |-> call.ret ] ]
    /\ call' = NoCall
    /\ UNCHANGED << store, page, filteredTodos, updateState, searchQuery,
                    deferredSearchQuery, selectedCategory, filterDeps >>

\* queries without its i-th element
Without(s, i) == SubSeq(s, 1, i - 1) \o SubSeq(s, i + 1, Len(s))

\* the effect of SearchAndFilter after its await, for the i-th query in
\* flight: onResultsChange(results), which is setFilteredTodos(results); a
\* query that failed in the store was answered by [].  The answers arrive in
\* any order.
QueryResolved(i) ==
    /\ i \in 1..Len(queries)
    /\ queries[i].answered
    /\ filteredTodos' = queries[i].ret
    /\ updateState' = Remounted(queries[i].ret)
    /\ queries' = Without(queries, i)
    /\ handled' = [ op |-> "query", n |-> i, deps |-> queries[i].deps ]
    /\ UNCHANGED << store, call, loaded, localTodos, localCategories,
                    optimistic, formState, formDeps, pending, effectRuns, late,
                    searchQuery, deferredSearchQuery, selectedCategory,
                    filterDeps >>

\* --------------------------------------------------------------- the inputs

\* The forms submitted to createTodoAction: category and priority left out
\* or left empty, a title to trim, a blank title, no title.
CreateForms ==
    { [ title |-> << "a" >> ],
      [ title |-> << "a" >>, category |-> "", priority |-> "" ],
      [ title |-> << " ", "B", " " >>, category |-> "work", priority |-> "high" ],
      [ title |-> << " " >>, category |-> "work", priority |-> "high" ],
      [ category |-> "work" ] }

\* The forms the edit form of TodoItem submits to updateTodoAction.
UpdateForms ==
    { [ title |-> << "B", " " >>, category |-> "work", priority |-> "high" ],
      [ title |-> << "\t" >>, category |-> "work", priority |-> "high" ] }

CategoryArgs == { "all", "general", "work", "misc" }

Next ==
    \/ \E f \in CreateForms, fault \in Faults : CreateTodoAction(f, fault)
    \/ \E id \in Ids, fault \in Faults : ToggleTodoAction(id, fault)
    \/ \E id \in Ids, fault \in ReadFaults : DeleteTodoAction(id, fault)
    \/ \E id \in Ids, f \in UpdateForms, fault \in Faults :
          UpdateTodoAction(id, f, fault)
    \/ \E c \in CategoryArgs, fault \in ReadFaults :
          GetTodosByCategoryAction(c, fault)
    \/ \E fault \in ReadFaults : GetAllTodosAction(fault)
    \/ Return
    \/ Tick

Spec == Init /\ [][Next]_vars

\* The forms and the queries of the search runs: titles that differ in
\* case or hold a blank, queries that are blank, padded, in another case or
\* hold a character LIKE reads as a wildcard.
SearchForms ==
    { [ title |-> << "a", "b" >> ],
      [ title |-> << "A" >> ],
      [ title |-> << "b", " ", "a" >> ] }

Queries ==
    { << >>, << "\t", " " >>, << "a" >>, << " ", "a" >>, << "_" >> }

NextSearch ==
    \/ \E f \in SearchForms : CreateTodoAction(f, "none")
    \/ \E id \in Ids : ToggleTodoAction(id, "none")
    \/ \E q \in Queries, fault \in ReadFaults : SearchTodosAction(q, fault)
    \/ Return
    \/ Tick

\* The store under searches: tasks are created and toggled, then searched.
SpecSearch == Init /\ [][NextSearch]_vars

\* The forms of the title-validation runs: no title, an empty one, a blank
\* one, and titles around the limit of 200 characters, bare and padded.
TitleForms ==
    { [ priority |-> "low" ],
      [ title |-> << >> ],
      [ title |-> << " ", "\t" >> ],
      [ title |-> << "a" >> ],
      [ title |-> Rep("a", MaxTitleLen - 1), category |-> "work" ],
      [ title |-> Rep("a", MaxTitleLen) ],
      [ title |-> Rep("a", MaxTitleLen + 1) ],
      [ title |-> << " " >> \o Rep("b", MaxTitleLen) \o << "\n" >> ],
      [ title |-> << " " >> \o Rep("b", MaxTitleLen + 1) ] }

NextTitle ==
    \/ \E f \in TitleForms, fault \in Faults : CreateTodoAction(f, fault)
    \/ \E id \in Ids : DeleteTodoAction(id, "none")
    \/ Return
    \/ Tick

\* The store under creates with titles around the validation limits.
SpecTitle == Init /\ [][NextTitle]_vars

\* The forms of the category runs: the default category, a seeded one and
\* one that is not in the categories table.
CategoryForms ==
    { [ title |-> << "a" >> ],
      [ title |-> << "a" >>, category |-> "shopping", priority |-> "low" ],
      [ title |-> << "a" >>, category |-> "misc", priority |-> "low" ] }

NextCategories ==
    \/ \E f \in CategoryForms : CreateTodoAction(f, "none")
    \/ \E id \in Ids, f \in UpdateForms : UpdateTodoAction(id, f, "none")
    \/ \E id \in Ids : ToggleTodoAction(id, "none")
    \/ \E id \in Ids : DeleteTodoAction(id, "none")
    \/ \E fault \in ReadFaults : GetAllCategoriesAction(fault)
    \/ Restart
    \/ Return
    \/ Tick

\* The store under creates, edits, toggles, deletes and restarts of the
\* server process, with the category counts read in between.
SpecCategories == Init /\ [][NextCategories]_vars

NextToggle ==
    \/ CreateTodoAction([ title |-> << "a" >> ], "none")
    \/ \E id \in Ids : Observe(id)
    \/ \E id \in Ids, fault \in Faults : ToggleTodoAction(id, fault)
    \/ \E id \in Ids, f \in UpdateForms : UpdateTodoAction(id, f, "none")
    \/ Return

\* The store under runs of toggles, with edits and failed toggles between
\* them.
SpecToggle == Init /\ [][NextToggle]_vars

\* The form the page submits to createTodoAction: the form of TodoForm
\* always holds its three fields.
PageForms ==
    { [ title |-> << "a" >>, category |-> "general", priority |-> "medium" ] }

\* The form the edit form of a TodoItem submits: another title, category
\* and priority.
PageEditForms ==
    { [ title |-> << "B" >>, category |-> "work", priority |-> "high" ] }

NextPage ==
    \/ LoadData
    \/ \E id \in Ids : TransitionSettles(id)
    \/ \E id \in Ids : HandleToggle(id)
    \/ \E fault \in ReadFaults : ServeToggle(fault)
    \/ ToggleResolved
    \/ ToggleRejected
    \/ \E id \in Ids, answer \in BOOLEAN : HandleDelete(id, answer)
    \/ \E fault \in ReadFaults : ServeDelete(fault)
    \/ DeleteResolved
    \/ DeleteRejected
    \/ \E f \in PageForms : SubmitCreate(f)
    \/ \E fault \in ReadFaults : ServeCreate(fault)
    \/ CreateResolved
    \/ CreateEffect
    \/ \E id \in Ids, f \in PageEditForms : SubmitEdit(id, f)
    \/ \E fault \in ReadFaults : ServeEdit(fault)
    \/ EditResolved
    \/ \E id \in Ids : UpdateEffect(id)

\* The page and the store: the user loads the page and toggles, deletes,
\* creates and edits tasks, one request at a time.
SpecPage == Init /\ [][NextPage]_vars

\* The forms of the filter runs: two titles, two categories.
FilterForms ==
    { [ title |-> << "a" >>, category |-> "general", priority |-> "medium" ],
      [ title |-> << "b" >>, category |-> "work", priority |-> "medium" ] }

\* The texts typed into the search input: none, a blank, a letter.
FilterTexts == { << >>, << " " >>, << "a" >> }

\* The category buttons clicked.
FilterCategories == { "all", "work" }

NextFilter ==
    \/ LoadData
    \/ queries = << >> /\ \E f \in FilterForms : SubmitCreate(f)
    \/ ServeCreate("none")
    \/ CreateResolved
    \/ CreateEffect
    \/ \E value \in FilterTexts : SetSearchQuery(value)
    \/ DeferredRender
    \/ \E c \in FilterCategories : HandleCategorySelect(c)
    \/ FilterEffect
    \/ \E fault \in ReadFaults : ServeQuery(fault)
    \/ QueryAnswered
    \/ \E i \in 1..MaxInFlight : QueryResolved(i)

\* The page and the store under searches and category filters, with tasks
\* created in between.
SpecFilter == Init /\ [][NextFilter]_vars

NextStale ==
    \/ LoadData
    \/ queries = << >> /\ \E f \in PageForms : SubmitCreate(f)
    \/ ServeCreate("none")
    \/ CreateResolved
    \/ CreateEffect
    \/ \E id \in Ids : HandleDelete(id, TRUE)
    \/ ServeDelete("none")
    \/ DeleteResolved
    \/ \E id \in Ids : HandleToggle(id)
    \/ \E id \in Ids : TransitionSettles(id)
    \/ \E id \in Ids : HandleToggleLate(id)
    \/ ServeToggle("none")
    \/ ToggleResolved
    \/ ServeLate("none")
    \/ LateResolved
    \/ \E value \in FilterTexts : SetSearchQuery(value)
    \/ DeferredRender
    \/ FilterEffect
    \/ ServeQuery("none")
    \/ QueryAnswered
    \/ \E i \in 1..MaxInFlight : QueryResolved(i)

\* The page and the store when tasks are deleted while answers to toggles
\* and to searches are still on their way.
SpecStale == Init /\ [][NextStale]_vars

NextEdit ==
    \/ LoadData
    \/ \E f \in PageForms : SubmitCreate(f)
    \/ ServeCreate("none")
    \/ CreateResolved
    \/ CreateEffect
    \/ \E id \in Ids, f \in PageEditForms : SubmitEdit(id, f)
    \/ \E fault \in ReadFaults : ServeEdit(fault)
    \/ EditResolved
    \/ \E id \in Ids : UpdateEffect(id)
    \/ \E id \in Ids : UpdateEffectAgain(id)
    \/ \E id \in Ids : HandleToggle(id)
    \/ \E id \in Ids : TransitionSettles(id)
    \/ ServeToggle("none")
    \/ ToggleResolved

\* The page and the store under edits, with every run of the effect that
\* follows a confirmed edit.
SpecEdit == Init /\ [][NextEdit]_vars

NextRace ==
    \/ LoadData
    \/ \E id \in Ids : TransitionSettles(id)
    \/ \E f \in PageForms : SubmitCreate(f)
    \/ ServeCreate("none")
    \/ CreateResolved
    \/ CreateEffect
    \/ \E id \in Ids : HandleToggle(id)
    \/ ServeToggle("none")
    \/ ToggleResolved
    \/ \E id \in Ids : HandleDelete(id, TRUE)
    \/ ServeDelete("none")
    \/ DeleteResolved
    \/ \E id \in Ids, f \in PageEditForms : SubmitEdit(id, f)
    \/ ServeEdit("none")
    \/ EditResolved
    \/ \E id \in Ids : UpdateEffect(id)
    \/ \E id \in Ids : HandleToggleLate(id)
    \/ \E id \in Ids : HandleDeleteLate(id)
    \/ \E fault \in ReadFaults : ServeLate(fault)
    \/ LateResolved

\* The page and the store when the user clicks again before the answer to
\* the last click has arrived.
SpecRace == Init /\ [][NextRace]_vars

\* ------------------------------------------------------------------ claims

\* What a SELECT of the model's columns shows of a stored row.
Shown(row) ==
    [ id        |-> row.id,
      title     |-> row.title,
      completed |-> (row.completed = 1),
      category  |-> row.category,
      priority  |-> row.priority,
      createdAt |-> row.created_at,
      updatedAt |-> row.updated_at ]

\* s holds each element of S exactly once.
ListsExactly(s, S) ==
    /\ Len(s) = Cardinality(S)
    /\ \A x \in S : \E i \in 1..Len(s) : s[i] = x

\* The list s is in listAll order: no completed task before an incomplete
\* one, and within one completion status no older task before a newer one.
InListOrder(s) ==
    \A i, j \in 1..Len(s) :
        /\ (~s[i].completed /\ s[j].completed) => i < j
        /\ (s[i].completed = s[j].completed /\ s[i].createdAt > s[j].createdAt)
               => i < j

\* The server action op returned without a fault of the store.
Returned(op) == call.op = op /\ call.fault = "none"

\* C1: listAll returns every persisted task exactly once, every incomplete
\* task before every completed one, and within one completion status a task
\* created later before a task created earlier.
C1_ListAllOrder ==
    Returned("getAll") =>
        /\ ListsExactly(call.ret, { Shown(r) : r \in todos })
        /\ InListOrder(call.ret)

\* C1 witness: listAll returned an incomplete task ahead of a completed task
\* that was created after it.
C1_Witness ==
    /\ Returned("getAll")
    /\ Len(call.ret) = 2
    /\ ~call.ret[1].completed /\ call.ret[2].completed
    /\ call.ret[1].createdAt < call.ret[2].createdAt

\* The tasks of list l whose category is c, in l's order.
OfCategory(l, c) == SelectSeq(l, LAMBDA t : t.category = c)

\* C2: listByCategory(c) returns exactly the persisted tasks whose category
\* is c, in the relative order listAll gives them: its results are the
\* results of listAll with the other categories struck out.
C2_ByCategoryIsFilteredListAll ==
    /\ Idle =>
          \A c \in CategoryArgs :
              GetByCategory(todos, c) = { OfCategory(l, c) : l \in GetAll(todos) }
    /\ (Returned("byCategory") /\ call.arg # "all") =>
          /\ ListsExactly(call.ret,
                          { Shown(r) : r \in { x \in todos : x.category = call.arg } })
          /\ \E l \in GetAll(todos) : call.ret = OfCategory(l, call.arg)

\* C2 witness: two tasks are stored and listByCategory("work") returned one
\* of them, leaving the task of the other category out.
C2_Witness ==
    /\ Returned("byCategory")
    /\ call.arg = "work"
    /\ Len(call.ret) = 1
    /\ Cardinality(todos) = 2

\* q occurs in title as it stands: the same characters, in the same case.
Contains(title, q) ==
    \E i \in 0..(Len(title) - Len(q)) : SubSeq(title, i + 1, i + Len(q)) = q

\* Every character of q is white space (q may be empty).
Blank(q) == \A i \in 1..Len(q) : IsWhiteSpace(q[i])

\* C3: search(q) of a non-blank q returns exactly the persisted tasks whose
\* title contains q as a literal substring, case preserved, no wildcards,
\* in listAll order.
C3_SearchLiteralSubstring ==
    (Returned("search") /\ ~Blank(call.arg)) =>
        /\ ListsExactly(call.ret,
                        { Shown(r) : r \in { x \in todos : Contains(x.title, call.arg) } })
        /\ InListOrder(call.ret)

\* C4: search of an empty or white-space-only query returns what listAll
\* returns: the same tasks in a listAll order.
C4_BlankSearchIsListAll ==
    (Returned("search") /\ Blank(call.arg)) => call.ret \in GetAll(todos)

\* C4 witness: a white-space-only query returned two tasks, none of whose
\* titles holds a blank.
C4_Witness ==
    /\ Returned("search")
    /\ call.arg = << "\t", " " >>
    /\ Len(call.ret) = 2
    /\ \A i \in 1..2 : ~Contains(call.ret[i].title, << " " >>)

\* The form's title, trimmed, has between 1 and 200 characters.
TitleAccepted(form) ==
    /\ "title" \in DOMAIN form
    /\ Len(Trim(form.title)) >= 1
    /\ Len(Trim(form.title)) <= 200

IsTrimOf(t, s) ==
    /\ t # << >> => ~IsWhiteSpace(t[1]) /\ ~IsWhiteSpace(t[Len(t)])
    /\ \E i \in 0..(Len(s) - Len(t)) :
          /\ SubSeq(s, i + 1, i + Len(t)) = t
          /\ \A k \in 1..Len(s) : (k <= i \/ k > i + Len(t)) => IsWhiteSpace(s[k])

\* The value of field k of the form, or dflt when the form leaves k out or
\* leaves it empty.
Given(form, k, dflt) ==
    IF k \in DOMAIN form /\ form[k] # "" THEN form[k] ELSE dflt

\* C6: a successful create adds exactly one task and returns the stored row:
\* not completed, the trimmed title, the given category and priority or
\* "general" and "medium", created and updated at the same time; every
\* other stored task is as it was.
C6_CreateAddsOneRow ==
    (call.op = "create" /\ call.ret.success) =>
        \E row \in todos :
            /\ row \notin call.pre
            /\ todos = call.pre \cup { row }
            /\ call.ret.data = Shown(row)
            /\ call.ret.data.completed = FALSE
            /\ IsTrimOf(call.ret.data.title, call.arg.title)
            /\ call.ret.data.category = Given(call.arg, "category", "general")
            /\ call.ret.data.priority = Given(call.arg, "priority", "medium")
            /\ call.ret.data.createdAt = call.ret.data.updatedAt

\* C6 witness: a create with a padded title and no category or priority was
\* added to a store that held a task already.
C6_Witness ==
    /\ call.op = "create" /\ call.ret.success
    /\ call.pre # {}
    /\ "category" \notin DOMAIN call.arg

\* The elements of the sequence s.
Range(s) == { s[i] : i \in 1..Len(s) }

\* C7: task ids are unique and handed out in increasing order: every id is a
\* positive integer greater than every id handed out before it, also after
\* deletes, and a successful create returns the id handed out last.
C7_IdsIncrease ==
    /\ \A i \in 1..Len(issued) : issued[i] > 0
    /\ \A i, j \in 1..Len(issued) : i < j => issued[i] < issued[j]
    /\ \A r1, r2 \in todos : r1.id = r2.id => r1 = r2
    /\ \A r \in todos : r.id \in Range(issued)
    /\ (call.op = "create" /\ call.ret.success) =>
          call.ret.data.id = issued[Len(issued)]

\* C7 witness: a create returned its id after the task of an earlier id was
\* deleted.
C7_Witness ==
    /\ call.op = "create" /\ call.ret.success
    /\ Len(issued) = 2
    /\ call.pre = {}

\* The identifier and the creation time of every task in the table.
Births(tbl) == { << r.id, r.created_at >> : r \in tbl }

\* C8: every stored task was updated no earlier than it was created, and an
\* update or a toggle changes no task's id or creation time.
C8_TimestampsAndIdentity ==
    /\ \A r \in todos : r.updated_at >= r.created_at
    /\ call.op \in { "update", "toggle" } => Births(todos) = Births(call.pre)

\* C8 witness: an edit of a task succeeded a second after the task was made.
C8_Witness ==
    /\ call.op = "update" /\ call.ret.success
    /\ call.ret.data.updatedAt > call.ret.data.createdAt

\* The id an update or a toggle names.
TargetId == IF call.op = "update" THEN call.arg.id ELSE call.arg

\* C9: an update or a toggle of an id that is not stored fails as not found,
\* an outcome other than that of a fault of the store, and leaves the store
\* as it was.
C9_MissingIdIsNotFound ==
    ( /\ call.op \in { "update", "toggle" }
      /\ call.fault = "none"
      /\ \A r \in call.pre : r.id # TargetId
      /\ call.op = "update" => TitleAccepted(call.arg.form) ) =>
        /\ ~call.ret.success
        /\ call.ret.error = ErrNotFound
        /\ todos = call.pre

\* C10: a successful update changes, in the one task it names, the fields it
\* names and the update time, and nothing else: an edit leaves completed as
\* it was, a toggle leaves title, category and priority; every other task
\* is as it was, and the row returned is the row stored.
C10_UpdateFrame ==
    (call.op \in { "update", "toggle" } /\ call.ret.success) =>
        \E old \in call.pre : \E new \in todos :
            /\ old.id = TargetId /\ new.id = TargetId
            /\ todos \ { new } = call.pre \ { old }
            /\ call.ret.data = Shown(new)
            /\ new.created_at = old.created_at
            /\ new.updated_at = now
            /\ IF call.op = "update"
               THEN /\ IsTrimOf(new.title, call.arg.form.title)
                    /\ new.category = call.arg.form.category
                    /\ new.priority = call.arg.form.priority
                    /\ new.completed = old.completed
               ELSE /\ new.completed = 1 - old.completed
                    /\ new.title = old.title
                    /\ new.category = old.category
                    /\ new.priority = old.priority

\* C10 witness: an edit of a completed task succeeded while another task was
\* stored.
C10_Witness ==
    /\ call.op = "update" /\ call.ret.success
    /\ call.ret.data.completed
    /\ Cardinality(todos) = 2

\* C11: a delete that reaches the store reports success and removes the row
\* with that id and no other, so no listAll afterwards contains the id; when
\* the id was not in the store the store is unchanged, hence deleting twice
\* leaves the same store as deleting once.
C11_DeleteRemovesOnlyThatId ==
    Returned("delete") =>
        /\ call.ret.success
        /\ call.ret.message = MsgDeleted
        /\ \A r \in call.pre : r.id # call.arg => r \in todos
        /\ \A r \in todos : r \in call.pre /\ r.id # call.arg
        /\ \A l \in GetAll(todos) : \A i \in 1..Len(l) : l[i].id # call.arg
        /\ (\A r \in call.pre : r.id # call.arg) => todos = call.pre
        /\ Delete(todos, call.arg) = todos

\* a delete removed a stored row and another row survived it
C11_Witness ==
    /\ Returned("delete")
    /\ \E r \in call.pre : r.id = call.arg
    /\ todos # {}

\* C12: whatever creates, edits, toggles, deletes and store initializations
\* went before, getCategories returns the four seeded categories general,
\* work, personal and shopping once each and nothing else, those without a
\* task included, and the count of each is the number of stored tasks whose
\* category is its name.
C12_CategoriesWithCounts ==
    Returned("getCategories") =>
        LET l == call.ret
        IN  /\ Len(l) = Len(DefaultCategories)
            /\ \A k \in 1..Len(DefaultCategories) :
                   Cardinality({ i \in 1..Len(l) :
                                   l[i].name = DefaultCategories[k].name }) = 1
            /\ \A i \in 1..Len(l) :
                   l[i].count =
                       Cardinality({ r \in todos : r.category = l[i].name })

\* the counts were read while one category held a task, another held none
\* and a task of a category outside the table was stored
C12_Witness ==
    /\ Returned("getCategories")
    /\ \E i \in 1..Len(call.ret) : call.ret[i].count > 0
    /\ \E i \in 1..Len(call.ret) : call.ret[i].count = 0
    /\ \E r \in todos : \A i \in 1..Len(call.ret) : call.ret[i].name # r.category

\* C13: a confirmed toggle stores and returns the negation of the flag that
\* was stored; after n confirmed toggles of a task, with no other write of
\* its flag between them, the stored flag is the original one exactly when n
\* is even, so two consecutive confirmed toggles restore it.
C13_ToggleRoundTrip ==
    /\ Returned("toggle") /\ call.ret.success =>
           \E r \in call.pre : \E r2 \in todos :
              /\ r.id = call.arg
              /\ r2.id = call.arg
              /\ Boolean(r2.completed) = ~Boolean(r.completed)
              /\ call.ret.data.completed = ~Boolean(r.completed)
    /\ run # NoRun =>
           \A r \in todos :
              r.id = run.id =>
                 /\ (Boolean(r.completed) = run.orig) <=> (run.n % 2 = 0)
                 /\ run.n = 2 => Boolean(r.completed) = run.orig

\* the second of two consecutive confirmed toggles has returned
C13_Witness ==
    /\ Returned("toggle")
    /\ call.ret.success
    /\ run # NoRun
    /\ run.id = call.arg
    /\ run.n = 2

\* C14: every server action, on success and on failure, returns a record of
\* the one result shape: a boolean success and, optionally, message, error
\* and data, and no other field.
C14_UniformResultShape ==
    ~Idle =>
        /\ call.op \notin ArrayActions
        /\ "success" \in DOMAIN call.ret
        /\ DOMAIN call.ret \subseteq ActionStateFields
        /\ call.ret.success \in BOOLEAN

\* the messages a mutating action returns for a failure of the store
GenericErrors == { ErrCreate, ErrUpdate, ErrDelete }

\* C15: when a statement of the store throws during a server action, the
\* exception does not leave the action: a mutating action returns success =
\* FALSE with its fixed message and no data, a read action returns the empty
\* list, and the table is what it was before the action.
C15_StoreFailureContained ==
    ~Idle /\ call.fault # "none" =>
        /\ IF call.op \in ArrayActions
           THEN call.ret = << >>
           ELSE /\ call.ret.success = FALSE
                /\ call.ret.error \in GenericErrors
                /\ DOMAIN call.ret = { "success", "error" }
        /\ todos = call.pre

\* C16: when the toggle action reports failure after the optimistic flip was
\* applied, the reducer of the TodoItem is applied a second time, and once
\* the failure is handled the flag shown is the one shown before the flip.
C16_FailedToggleFlipsBack ==
    handled.op = "toggle" /\ handled.outcome = "failed" =>
        /\ handled.flips = 2
        /\ Mounted(handled.id) =>
               OptimisticCompleted(handled.id) = handled.shown

\* the step of the page that takes a successful answer of toggleTodoAction
ToggleConfirmedStep ==
    /\ pending.op = "toggle"
    /\ call.op = "toggle"
    /\ call.ret.success
    /\ pending' = NoReq

\* the list after is the list before with the task of id t.id replaced by t
ReplacedIn(before, after, t) ==
    /\ Len(after) = Len(before)
    /\ \A i \in 1..Len(before) :
          after[i] = IF before[i].id = t.id THEN t ELSE before[i]

Unspeculative == { "create", "edit", "delete" }

CreateEffectStep ==
    /\ formState.success
    /\ formDeps # Deps(formState)
    /\ formDeps' = Deps(formState)

\* no task is twice in the list
NoDuplicate(l) == \A i, j \in 1..Len(l) : l[i].id = l[j].id => i = j

\* C19: the task returned by a confirmed create is put once at the head of
\* the full list and once at the head of the displayed list, the count of
\* the category named by the task goes up by one and every other count
\* stays; the effect that does so is due after the confirmation and not
\* again after it ran.
C19_ConfirmedCreatePrepends ==
    [][ /\ ( /\ pending.op = "create"
             /\ call.op = "create"
             /\ call.ret.success
             /\ pending' = NoReq ) =>
               /\ formState' = call.ret
               /\ formDeps' # Deps(formState')
        /\ CreateEffectStep =>
               /\ localTodos' = << formState.data >> \o localTodos
               /\ filteredTodos' = << formState.data >> \o filteredTodos
               /\ NoDuplicate(localTodos')
               /\ NoDuplicate(filteredTodos')
               /\ Len(localCategories') = Len(localCategories)
               /\ \A i \in 1..Len(localCategories) :
                     localCategories'[i] =
                        IF localCategories[i].name = formState.data.category
                        THEN [ localCategories[i] EXCEPT !.count = @ + 1 ]
                        ELSE localCategories[i]
               /\ formDeps' = Deps(formState')
      ]_vars

\* the task of a confirmed create was put before a task the lists held
C19_Witness ==
    /\ handled.op = "create"
    /\ handled.outcome = "added"
    /\ Len(localTodos) >= 2
    /\ localTodos[1].id = handled.id
    /\ filteredTodos[1].id = handled.id
    /\ \E i \in 1..Len(localCategories) : localCategories[i].count >= 2

\* C20: deleteTodoAction runs only for a request the user has confirmed at
\* the gate; when the user declines, no request is sent and the store and
\* the state of the page are left as they are.
C20_DeleteOnlyAfterYes ==
    [][ /\ pending'.op = "delete" => pending'.answer
        /\ call'.op = "delete" => pending'.op = "delete" /\ pending'.answer
        /\ ( /\ handled'.op = "delete"
             /\ handled'.outcome = "declined"
             /\ handled' # handled ) =>
               /\ pending' = NoReq
               /\ UNCHANGED << store, call, Local, pending >>
      ]_vars

\* the store has run a delete request that the user confirmed
C20_Witness ==
    /\ call.op = "delete"
    /\ pending.op = "delete"
    /\ pending.answer
    /\ call.ret.success
    /\ \E r \in call.pre : r.id = pending.id

\* The page handles the answer to a delete request of task id that the
\* store reports as done.
DeleteConfirmedStep(id) ==
    /\ call.op = "delete"
    /\ call.ret.success
    /\ call' = NoCall
    /\ \/ pending.op = "delete" /\ pending.id = id
       \/ pending = NoReq /\ late.op = "delete" /\ late.id = id

\* C21: each confirmed delete of a task removes that task from the full
\* list and from the displayed list and takes one from the local count of
\* the task's category, once per deleted task: a confirmed delete of a task
\* the full list no longer holds changes no count.  All other tasks and
\* counts stay as they are.
C21_ConfirmedDeleteCountsOnce ==
    [][ \A id \in Ids :
          DeleteConfirmedStep(id) =>
              LET task == Find(localTodos, id)
              IN  /\ localTodos' = RemoveById(localTodos, id)
                  /\ filteredTodos' = RemoveById(filteredTodos, id)
                  /\ localCategories' =
                         IF task = << >> THEN localCategories
                         ELSE AddToCount(localCategories, task[1].category, -1)
      ]_vars

\* The effect of the TodoItem of task id hands the task returned by its
\* confirmed edit to handleTodoUpdated, and the state of Home changes.
EditReconciledStep(id) ==
    /\ pending = NoReq
    /\ call' = call
    /\ late' = late
    /\ updateState[id].success
    /\ "data" \in DOMAIN updateState[id]
    /\ handled' = [ op |-> "edit", id |-> id, outcome |-> "reconciled" ]
    /\ Local' # Local

\* The page hands the task returned by a confirmed toggle of task id to
\* handleTodoUpdated.
ToggleHandledStep(id) ==
    /\ call.op = "toggle"
    /\ call' = NoCall
    /\ call.ret.success
    /\ "data" \in DOMAIN call.ret
    /\ \/ pending.op = "toggle" /\ pending.id = id
       \/ pending = NoReq /\ late.op = "toggle" /\ late.id = id

\* the counts after are the counts before with one moved from category a
\* to category b
Moved(before, after, a, b) ==
    /\ Len(after) = Len(before)
    /\ \A i \in 1..Len(before) :
          after[i] = [ before[i] EXCEPT !.count =
                         IF before[i].name = a THEN @ - 1
                         ELSE IF before[i].name = b THEN @ + 1
                         ELSE @ ]

\* C22: when a confirmed edit moves a task from category A to another
\* category B, the local count of A goes down by one and that of B up by
\* one in the same update of the state; when the category stays, or the
\* update is a toggle, no local count changes.
C22_CountsFollowCategoryChange ==
    [][ \A id \in Ids :
          /\ (EditReconciledStep(id) /\ Find(localTodos, id) # << >>) =>
                 LET a == Find(localTodos, id)[1].category
                     b == updateState[id].data.category
                 IN  IF a # b
                     THEN Moved(localCategories, localCategories', a, b)
                     ELSE localCategories' = localCategories
          /\ ToggleHandledStep(id) => localCategories' = localCategories
      ]_vars

\* what the store's search for text returns on the table tbl: a blank text
\* lists all
SearchResults(tbl, text) ==
    IF Trim(text) = << >> THEN GetAll(tbl) ELSE Search(tbl, Trim(text))

\* what the store's by-category query returns on the table tbl
CategoryResults(tbl, category) ==
    IF category = "all" THEN GetAll(tbl) ELSE GetByCategory(tbl, category)

\* The page sets the displayed list from the answer to the i-th query in
\* flight, which the store has run without a fault.
QueryResolvedStep(i) ==
    /\ i \in 1..Len(queries)
    /\ queries[i].answered
    /\ queries[i].fault = "none"
    /\ queries' = Without(queries, i)
    /\ handled' = [ op |-> "query", n |-> i, deps |-> queries[i].deps ]

TextCleared ==
    /\ searchQuery = << >>
    /\ deferredSearchQuery = << >>
    /\ filterDeps = FilterDeps

\* C24: selecting a category while a search text is active clears the search
\* text, and once the queries that follow are answered the displayed list
\* is the by-category result for the selected category, not the result of a
\* search for the old text.
C24_CategorySelectClearsSearch ==
    [][ /\ (handled'.op = "select" /\ handled' # handled) => searchQuery' = << >>
        /\ \A i \in 1..MaxInFlight :
              (QueryResolvedStep(i) /\ queries' = << >> /\ TextCleared) =>
                  filteredTodos' \in
                      CategoryResults(queries[i].pre, selectedCategory)
      ]_vars

\* C25: when the queries in flight are all answered, the displayed list
\* shows the answer to the newest query, the one of the last run of the
\* effect, whatever the order in which the answers arrived.
C25_NewestQueryWins ==
    (queries = << >> /\ handled.op = "query") => handled.deps = filterDeps

\* C26: after a confirmed edit the reconciliation of the lists with the
\* returned task comes to rest: the effect of the TodoItem hands the task to
\* handleTodoUpdated a bounded number of times, and does not run again and
\* again with nothing left to change.
C26_ReconciliationComesToRest == effectRuns < MaxEffectRuns

\* the fields of a task that the page shows and the user sets
Essence(t) ==
    [ id |-> t.id, title |-> t.title, completed |-> t.completed,
      category |-> t.category, priority |-> t.priority ]

\* C27: whenever no request is in flight and the effects have run, the full
\* list of the page holds exactly the tasks stored, each once, with the
\* stored title, completion flag, category and priority; a confirmed toggle
\* after a confirmed edit of the same task stays.
C27_FullListMirrorsStore ==
    Settled =>
        /\ Len(localTodos) = Cardinality(todos)
        /\ \A r \in todos :
              \E k \in 1..Len(localTodos) :
                  Essence(localTodos[k]) = Essence(Shown(r))

\* No request of the page is in flight and the effects have run.
AtRest ==
    /\ loaded
    /\ pending = NoReq
    /\ late = NoReq
    /\ Idle
    /\ EffectsFlushed

\* the tasks of category name in the full list of the page
LocalCount(name) ==
    Cardinality({ k \in 1..Len(localTodos) : localTodos[k].category = name })

\* C28: whenever no request is in flight, each local category count is not
\* negative, is the number of tasks of that category in the full list of the
\* page, and is the count the store's categories query would return; also
\* after handlers that ran with a stale snapshot of the full list.
C28_CountsMatchFullList ==
    AtRest =>
        \A i \in 1..Len(localCategories) :
            LET cat == localCategories[i]
            IN  /\ cat.count >= 0
                /\ cat.count = LocalCount(cat.name)
                /\ cat.count =
                       Cardinality({ r \in todos : r.category = cat.name })

\* the ids of the tasks in the list l
IdsOf(l) == { l[k].id : k \in 1..Len(l) }

\* The delete of task id is confirmed: the store has handed out the id and
\* holds no row of it, and the page has taken the task from its lists.
Gone(id) ==
    /\ id \in Range(issued)
    /\ \A r \in todos : r.id # id
    /\ id \notin IdsOf(localTodos) \cup IdsOf(filteredTodos)

\* C29: once the delete of a task is confirmed, its id never appears again
\* in the full list or in the displayed list, whatever answers arrive
\* afterwards.
C29_DeletedStaysGone ==
    [][ \A id \in Ids : Gone(id) => Gone(id)' ]_vars

\* what the store returns for the display mode of the page
StoreResults ==
    IF Trim(deferredSearchQuery) # << >>
    THEN SearchResults(todos, deferredSearchQuery)
    ELSE CategoryResults(todos, selectedCategory)

\* C30: whenever no request and no query is in flight and the search text
\* has settled, the displayed list is what the store would return for the
\* display mode, the search for the text or else the by-category query for
\* the selected category: the same tasks in the same order.
C30_DisplayedMirrorsStore ==
    (Settled /\ queries = << >> /\ deferredSearchQuery = searchQuery) =>
        filteredTodos \in StoreResults

====
